---- MODULE Spec2Model ----
(***************************************************************************)
(* A model of the Design-by-Contract package src/src/contracts/__init__.py *)
(* and of its example module src/src/contracts/main.py.                    *)
(*                                                                         *)
(* State: the module-level flag _CONTRACT_CHECKING_ENABLED, the heap of    *)
(* callables (original functions and the wrapper closures the condition    *)
(* decorators create), the heap of _contract_metadata dictionaries, and    *)
(* the interpreter state of the one call in flight (the stack of wrapper   *)
(* frames, the arguments, the value or exception travelling between        *)
(* frames).  The variable trace is the observer's log of that call: what   *)
(* user code (predicates, the body) and a reader of the flag would see.    *)
(***************************************************************************)
EXTENDS Integers, Sequences, FiniteSets, TLC

VARIABLES
    _CONTRACT_CHECKING_ENABLED,    \* _CONTRACT_CHECKING_ENABLED
    funcs,      \* heap of callables, indexed 1..Len(funcs)
    metas,      \* heap of _contract_metadata dicts, indexed 1..Len(metas)
    decorTime,  \* history: value of the flag when the newest callable was created
    stack,      \* frames of the call in flight, innermost last
    argst,      \* the arguments of the call in flight
    flight,     \* value returned / exception raised by the frame that just ended
    trace       \* observer's log of the call in flight

vars == <<_CONTRACT_CHECKING_ENABLED, funcs, metas, decorTime, stack, argst, flight, trace>>
heapVars == <<funcs, metas, decorTime>>
callVars == <<stack, argst, flight, trace>>

(***************************************************************************)
(* Bounds of the model.                                                    *)
(***************************************************************************)
\* wrappers created by the condition decorators, per run
MaxWrappers == 2

(***************************************************************************)
(* The exception classes (lines 18-57) and isinstance.                     *)
(***************************************************************************)
ViolationKinds ==
    {"ContractViolation", "PreconditionViolation",
     "PostconditionViolation", "InvariantViolation"}

StubKinds == {"ImplementThis", "DontImplementThis"}

OtherKinds == {"ValueError", "ZeroDivisionError"}

ExceptionKinds == ViolationKinds \cup StubKinds \cup OtherKinds

\* (variant: the stub markers derive from ContractViolation)
BaseClassOfStubIsViolation(k) ==
    IF k \in {"PreconditionViolation", "PostconditionViolation",
              "InvariantViolation", "ImplementThis", "DontImplementThis"}
    THEN "ContractViolation"
    ELSE "Exception"

\* the base class named in each class statement
BaseClass(k) ==
    IF k \in {"PreconditionViolation", "PostconditionViolation", "InvariantViolation"}
    THEN "ContractViolation"
    ELSE "Exception"

IsInstance(k, cls) == k = cls \/ BaseClass(k) = cls \/ cls = "Exception"

(***************************************************************************)
(* The start-up default of the flag (line 15).  A string is a sequence of  *)
(* one-character strings, the characters being printable ASCII.           *)
(***************************************************************************)
UpperCase ==
    <<"A", "B", "C", "D", "E", "F", "G", "H", "I", "J", "K", "L", "M",
      "N", "O", "P", "Q", "R", "S", "T", "U", "V", "W", "X", "Y", "Z">>

LowerCase ==
    <<"a", "b", "c", "d", "e", "f", "g", "h", "i", "j", "k", "l", "m",
      "n", "o", "p", "q", "r", "s", "t", "u", "v", "w", "x", "y", "z">>

\* the printable ASCII characters that are not letters (all but the grave
\* accent, which a string of this module cannot hold)
Uncased ==
    {" ", "!", "\"", "#", "$", "%", "&", "'", "(", ")", "*", "+",
     ",", "-", ".", "/", "0", "1", "2", "3", "4", "5", "6", "7",
     "8", "9", ":", ";", "<", "=", ">", "?", "@", "[", "\\", "]",
     "^", "_", "{", "|", "}", "~"}

\* the characters of the strings of the model
AsciiChars ==
    {UpperCase[i] : i \in DOMAIN UpperCase} \cup
    {LowerCase[i] : i \in DOMAIN LowerCase} \cup Uncased

\* str.lower() on the characters of the model: an upper-case letter becomes
\* its lower-case letter, any other character is kept; no value is given
\* to a character outside AsciiChars
LowerTable ==
    [c \in AsciiChars |->
        IF \E i \in DOMAIN UpperCase : UpperCase[i] = c
        THEN LowerCase[CHOOSE i \in DOMAIN UpperCase : UpperCase[i] = c]
        ELSE c]

LowerChar(c) == LowerTable[c]

\* s.lower() for a string s of characters of AsciiChars
Lower(s) == [i \in 1..Len(s) |-> LowerChar(s[i])]

TruthyTokens == {<<"1">>, <<"t", "r", "u", "e">>, <<"y", "e", "s">>}

\* os.environ.get('CONTRACTS_ENABLED', '')
EnvironGet(env) == IF env.present THEN env.value ELSE <<>>

\* (variant: the value is compared without .lower())
DefaultEnabledCaseSensitive(env) == EnvironGet(env) \in TruthyTokens

\* os.environ.get('CONTRACTS_ENABLED', '').lower() in ('1', 'true', 'yes')
DefaultEnabled(env) == Lower(EnvironGet(env)) \in TruthyTokens

Environments ==
    {[present |-> FALSE, value |-> <<>>]} \cup
    {[present |-> TRUE, value |-> v] : v \in
        {<<>>, <<"1">>, <<"0">>, <<"t", "r", "u", "e">>, <<"T", "r", "u", "e">>,
         <<"T", "R", "U", "E">>, <<"y", "e", "s">>, <<"Y", "E", "S">>,
         <<"o", "n">>, <<"n", "o">>, <<"1", "1">>, <<"y">>,
         <<"O", "F", "F">>, <<"F", "A", "L", "S", "E">>}}

(***************************************************************************)
(* Dictionaries: a dict is a function whose domain is the set of its keys. *)
(***************************************************************************)
EmptyDict == <<>>

HasKey(d, k) == k \in DOMAIN d

DictSet(d, k, v) == [x \in (DOMAIN d) \cup {k} |-> IF x = k THEN v ELSE d[x]]

(***************************************************************************)
(* The heap.  A callable is a record                                       *)
(*   kind  : "body" (an original function) or the decorator that made the  *)
(*           wrapper: "precondition", "postcondition", "invariant"         *)
(*   cond  : the predicate the wrapper closes over ("" for a body)         *)
(*   inner : the callable the wrapper closes over as func (0 for a body)   *)
(*   name  : __name__ (functools.wraps copies it)                          *)
(*   meta  : the dict its _contract_metadata attribute refers to, 0 when   *)
(*           the attribute is absent                                       *)
(* A heap is the pair [funcs, metas].                                      *)
(***************************************************************************)
Heap(fs, ms) == [funcs |-> fs, metas |-> ms]

NewFunction(name) ==
    [kind |-> "body", cond |-> "", inner |-> 0, name |-> name, meta |-> 0]

\* if not hasattr(func, '_contract_metadata'): func._contract_metadata = {}
EnsureMetadata(h, f) ==
    IF h.funcs[f].meta # 0
    THEN h
    ELSE Heap([h.funcs EXCEPT ![f].meta = Len(h.metas) + 1],
              Append(h.metas, EmptyDict))

\* (variant: raises extends the list already declared)
SetSlotExtendsRaises(h, f, key, value) ==
    LET h1 == EnsureMetadata(h, f)
        m == h1.funcs[f].meta
        d == h1.metas[m]
    IN  Heap(h1.funcs,
             [h1.metas EXCEPT ![m] =
                 DictSet(d, key, IF key = "raises" /\ HasKey(d, key)
                                 THEN d[key] \o value
                                 ELSE value)])

\* func._contract_metadata[key] = value, then return func: the five
\* metadata-only decorators
SetSlot(h, f, key, value) ==
    LET h1 == EnsureMetadata(h, f)
        m == h1.funcs[f].meta
    IN  Heap(h1.funcs, [h1.metas EXCEPT ![m] = DictSet(@, key, value)])

\* (variant: the list is reset at every registration)
RegisterOverwrites(h, f, key, cond) ==
    LET h1 == EnsureMetadata(h, f)
        m == h1.funcs[f].meta
    IN  Heap(h1.funcs, [h1.metas EXCEPT ![m] = DictSet(@, key, <<cond>>)])

\* if key not in func._contract_metadata: ...[key] = []
\* func._contract_metadata[key].append(condition)
Register(h, f, key, cond) ==
    LET h1 == EnsureMetadata(h, f)
        m == h1.funcs[f].meta
        d == h1.metas[m]
        d1 == IF HasKey(d, key) THEN d ELSE DictSet(d, key, <<>>)
    IN  Heap(h1.funcs, [h1.metas EXCEPT ![m] = DictSet(d1, key, Append(d1[key], cond))])

ListKey(kind) ==
    CASE kind = "precondition" -> "preconditions"
      [] kind = "postcondition" -> "postconditions"
      [] kind = "invariant" -> "invariants"

\* (variant: the wrapper gets a copy of the dict, not the dict)
MakeWrapperCopies(h, f, kind, cond) ==
    Heap(Append(h.funcs, [kind |-> kind, cond |-> cond, inner |-> f,
                          name |-> h.funcs[f].name, meta |-> Len(h.metas) + 1]),
         Append(h.metas, h.metas[h.funcs[f].meta]))

\* @functools.wraps(func) def wrapper ...; wrapper._contract_metadata =
\* func._contract_metadata; return wrapper
MakeWrapper(h, f, kind, cond) ==
    Heap(Append(h.funcs, [kind |-> kind, cond |-> cond, inner |-> f,
                          name |-> h.funcs[f].name, meta |-> h.funcs[f].meta]),
         h.metas)

\* the decorator returned by precondition / postcondition / invariant,
\* applied to callable f: the new wrapper is callable Len(h.funcs) + 1
Wrap(h, f, kind, cond) == MakeWrapper(Register(h, f, ListKey(kind), cond), f, kind, cond)

\* the _contract_metadata dict seen through callable f (EmptyDict when absent)
Carrier(f) == IF funcs[f].meta = 0 THEN EmptyDict ELSE metas[funcs[f].meta]

CarrierList(f, key) == IF HasKey(Carrier(f), key) THEN Carrier(f)[key] ELSE <<>>

(***************************************************************************)
(* User code: predicates and bodies.                                       *)
(*                                                                         *)
(* The generic function f takes arguments whose state decides what each    *)
(* predicate does when evaluated on them: return True, return False or     *)
(* raise.  An argument state is therefore a valuation of the predicates.   *)
(* The body of f may mutate its arguments (change the valuation), and      *)
(* returns or raises.  div and sqrt (main.py) take numbers.                *)
(***************************************************************************)
Preds == {"P1", "P2"}

PredRaises == ViolationKinds \cup {"ValueError"}

PredOutcomes == {"true", "false"} \cup PredRaises

\* at most one predicate raises: the first predicate that raises ends the call
ArgStates ==
    {a \in [Preds -> PredOutcomes] :
        Cardinality({p \in Preds : a[p] \in PredRaises}) <= 1}

NoArgs == <<>>

BodyRaises == StubKinds \cup {"ValueError", "PostconditionViolation"}

BodyResults == {1}

Flip(o) == IF o = "true" THEN "false" ELSE IF o = "false" THEN "true" ELSE o

\* the argument states the body of f may leave behind
BodyEffects(a) == {a} \cup {[a EXCEPT ![p] = Flip(a[p])] : p \in Preds}

DivArgs == {[a |-> x, b |-> y] : x \in {10, 7, -7, 0}, y \in {0, 2, -2, 5}}

SqrtArgs == {[x |-> v] : v \in {4, 0, -1}}

\* Python's a // b for b # 0
FloorDiv(a, b) == IF b > 0 THEN a \div b ELSE (0 - a) \div (0 - b)

Bool(b) == IF b THEN "true" ELSE "false"

\* (variant: the precondition of div tests the dividend)
div_precondition_on_dividend(a) == Bool(a.a # 0)

\* return b != 0
div_precondition(a) == Bool(a.b # 0)

\* return result == a // b
div_postcondition(result, a) ==
    IF a.b = 0 THEN "ZeroDivisionError"
    ELSE Bool(result = FloorDiv(a.a, a.b))

\* return x >= 0
sqrt_precondition(a) == Bool(a.x >= 0)

\* return abs(result * result - x) < 1e-10, on whole numbers
sqrt_postcondition(result, a) == Bool(result * result = a.x)

\* condition(*args) or condition(result, *args): "true", "false", or the
\* class of the exception the predicate raises
EvalCond(cond, result, a) ==
    CASE cond = "div_precondition" -> div_precondition(a)
      [] cond = "div_postcondition" -> div_postcondition(result, a)
      [] cond = "sqrt_precondition" -> sqrt_precondition(a)
      [] cond = "sqrt_postcondition" -> sqrt_postcondition(result, a)
      [] OTHER -> a[cond]

(***************************************************************************)
(* What travels between frames: nothing yet, a returned value, or a raised *)
(* exception (its class, and msg telling which raise statement made it).   *)
(***************************************************************************)
NoFlight == [tag |-> "none", exc |-> "", msg |-> "", val |-> 0]
Returned(v) == [tag |-> "return", exc |-> "", msg |-> "", val |-> v]
Raised(k, m) == [tag |-> "raise", exc |-> k, msg |-> m, val |-> 0]
Pass == [tag |-> "pass", exc |-> "", msg |-> "", val |-> 0]

(***************************************************************************)
(* The wrappers' code.                                                     *)
(***************************************************************************)
OwnViolation(kind) ==
    CASE kind = "precondition" -> "PreconditionViolation"
      [] kind = "postcondition" -> "PostconditionViolation"
      [] kind = "invariant" -> "InvariantViolation"

\* the message of the violation raised when the predicate returns false
ViolatedMsg(kind, at) ==
    CASE kind = "precondition" -> "Precondition violated"
      [] kind = "postcondition" -> "Postcondition violated"
      [] kind = "invariant" /\ at = "entry" -> "Invariant violated before execution"
      [] kind = "invariant" /\ at = "exit" -> "Invariant violated after execution"

EvaluatingMsg(kind) ==
    CASE kind = "precondition" -> "Error evaluating precondition"
      [] kind = "postcondition" -> "Error evaluating postcondition"
      [] kind = "invariant" -> "Error evaluating invariant"

\* (variant: every ContractViolation raised by the predicate is propagated)
HandlerPropagatesAll(kind, e) ==
    IF IsInstance(e.exc, "ContractViolation")
    THEN e
    ELSE Raised(OwnViolation(kind), EvaluatingMsg(kind))

\* (variant: the handler re-raises whatever the predicate raised)
HandlerReraises(kind, e) == e

\* except Exception as e: if isinstance(e, <own>): raise; raise <own>(...)
Handler(kind, e) ==
    IF IsInstance(e.exc, OwnViolation(kind))
    THEN e
    ELSE Raised(OwnViolation(kind), EvaluatingMsg(kind))

\* (variant: "if condition(...)" without the "not": a false predicate passes)
CheckOutcomeIgnoresFalse(kind, at, o) ==
    IF o \in {"true", "false"} THEN Pass
    ELSE Handler(kind, Raised(o, "raised by predicate"))

\* the try statement of a wrapper of the given kind, the predicate having
\* ended with outcome o: Pass, or the exception that leaves the statement
CheckOutcome(kind, at, o) ==
    IF o = "true" THEN Pass
    ELSE IF o = "false" THEN Handler(kind, Raised(OwnViolation(kind), ViolatedMsg(kind, at)))
    ELSE Handler(kind, Raised(o, "raised by predicate"))

\* (variant: the wrapper checks whatever the flag says)
CheckingAlways(f) == TRUE

\* (variant: the decorator reads the flag once, when it creates the wrapper)
CheckingAtDecoration(f) == decorTime

\* if _CONTRACT_CHECKING_ENABLED: as read by wrapper f when it runs
Checking(f) == _CONTRACT_CHECKING_ENABLED

Frame(f) == [f |-> f, pc |-> "enter"]
Top == stack[Len(stack)]
Pop == SubSeq(stack, 1, Len(stack) - 1)
\* (variant: the running wrapper calls the original function, not the
\* callable it was given)
CallOriginal == Append([stack EXCEPT ![Len(stack)].pc = "after"], Frame(1))

\* the running wrapper calls func(*args, **kwargs)
CallInner == Append([stack EXCEPT ![Len(stack)].pc = "after"], Frame(funcs[Top.f].inner))

\* log entries: the call of callable f by the caller, the flag as it is when
\* wrapper f reads it, a predicate evaluated by wrapper f and how it ended, a
\* body run and how it ended
Called(f) == [ev |-> "call", f |-> f, at |-> "call", val |-> "", res |-> 0]
Poll(f, at) == [ev |-> "poll", f |-> f, at |-> at, val |-> Bool(_CONTRACT_CHECKING_ENABLED), res |-> 0]
Eval(f, at, o) == [ev |-> "eval", f |-> f, at |-> at, val |-> o, res |-> 0]
Body(f, fl) == [ev |-> "body", f |-> f, at |-> "body",
                val |-> IF fl.tag = "raise" THEN fl.exc ELSE "return", res |-> fl.val]

\* what one run of the body of f does: it returns a value, possibly having
\* mutated its arguments, or it raises
BodyOutcomes(a) ==
    {[fl |-> Returned(v), args |-> a2] : v \in BodyResults, a2 \in BodyEffects(a)}
    \cup {[fl |-> Raised(k, "raised by body"), args |-> a] : k \in BodyRaises}

\* return a // b
div(a) ==
    IF a.b = 0 THEN Raised("ZeroDivisionError", "raised by body")
    ELSE Returned(FloorDiv(a.a, a.b))

\* raise ImplementThis("Square root function not yet implemented")
sqrt(a) == Raised("ImplementThis", "raised by body")

Idle == stack = <<>> /\ flight.tag = "none"
Done == stack = <<>> /\ flight.tag # "none"
Running(kind, pc) ==
    /\ stack # <<>>
    /\ funcs[Top.f].kind = kind
    /\ Top.pc = pc

(***************************************************************************)
(* Operations.                                                             *)
(***************************************************************************)
\* enable_contracts() and disable_contracts() may run at any moment, also
\* while a call is in flight (called by a predicate, by the body or by
\* another thread)
\* (variant: enable_contracts() flips the flag)
enable_contracts_flips ==
    /\ _CONTRACT_CHECKING_ENABLED' = ~_CONTRACT_CHECKING_ENABLED
    /\ UNCHANGED <<heapVars, callVars>>

enable_contracts ==
    /\ _CONTRACT_CHECKING_ENABLED' = TRUE
    /\ UNCHANGED <<heapVars, callVars>>

disable_contracts ==
    /\ _CONTRACT_CHECKING_ENABLED' = FALSE
    /\ UNCHANGED <<heapVars, callVars>>

\* return _CONTRACT_CHECKING_ENABLED
contracts_enabled == _CONTRACT_CHECKING_ENABLED

\* the callable a name is bound to after @decorator stacking: the newest
Outermost == Len(funcs)

\* precondition(c)(f), postcondition(c)(f), invariant(c)(f), for f among targets
Decorate(kind, targets) ==
    /\ Idle
    /\ Len(funcs) < 1 + MaxWrappers
    /\ \E f \in targets, c \in Preds :
          LET h == Wrap(Heap(funcs, metas), f, kind, c)
          IN  /\ funcs' = h.funcs
              /\ metas' = h.metas
    /\ decorTime' = _CONTRACT_CHECKING_ENABLED
    /\ UNCHANGED <<_CONTRACT_CHECKING_ENABLED, callVars>>

\* decorators stacked on one function: each is applied to what the previous returned
precondition == Decorate("precondition", {Outermost})
postcondition == Decorate("postcondition", {Outermost})
invariant == Decorate("invariant", {Outermost})

\* the caller calls callable f with arguments a
Call(f, a) ==
    /\ Idle
    /\ stack' = <<Frame(f)>>
    /\ argst' = a
    /\ trace' = <<Called(f)>>
    /\ UNCHANGED <<_CONTRACT_CHECKING_ENABLED, heapVars, flight>>

CallF == \E a \in ArgStates : funcs[Outermost].name = "f" /\ Call(Outermost, a)

\* entry of a precondition or invariant wrapper: lines 188-202, 277-291
EntryCheck(kind) ==
    /\ Running(kind, "enter")
    /\ LET f == Top.f
           o == EvalCond(funcs[f].cond, 0, argst)
           c == CheckOutcome(kind, "entry", o)
       IN  IF Checking(f)
           THEN /\ trace' = trace \o <<Poll(f, "entry"), Eval(f, "entry", o)>>
                /\ IF c.tag = "pass"
                   THEN stack' = CallInner /\ flight' = NoFlight
                   ELSE stack' = Pop /\ flight' = c
           ELSE /\ trace' = Append(trace, Poll(f, "entry"))
                /\ stack' = CallInner
                /\ flight' = NoFlight
    /\ UNCHANGED <<_CONTRACT_CHECKING_ENABLED, heapVars, argst>>

\* (variant: the exit-side check sits in a finally clause and also runs when
\* func raised)
ExitCheckInFinally(kind) ==
    /\ Running(kind, "after")
    /\ flight.tag # "none"
    /\ LET f == Top.f
           o == EvalCond(funcs[f].cond, flight.val, argst)
           c == CheckOutcome(kind, "exit", o)
       IN  IF Checking(f)
           THEN /\ trace' = trace \o <<Poll(f, "exit"), Eval(f, "exit", o)>>
                /\ flight' = IF c.tag = "pass" THEN flight ELSE c
           ELSE /\ trace' = Append(trace, Poll(f, "exit"))
                /\ flight' = flight
    /\ stack' = Pop
    /\ UNCHANGED <<_CONTRACT_CHECKING_ENABLED, heapVars, argst>>

\* exit of a postcondition or invariant wrapper, func having returned or
\* raised: lines 232-248, 291-307
ExitCheck(kind) ==
    /\ Running(kind, "after")
    /\ flight.tag # "none"
    /\ LET f == Top.f
           o == EvalCond(funcs[f].cond, flight.val, argst)
           c == CheckOutcome(kind, "exit", o)
       IN  IF flight.tag = "raise"
           THEN trace' = trace /\ flight' = flight
           ELSE IF Checking(f)
           THEN /\ trace' = trace \o <<Poll(f, "exit"), Eval(f, "exit", o)>>
                /\ flight' = IF c.tag = "pass" THEN flight ELSE c
           ELSE /\ trace' = Append(trace, Poll(f, "exit"))
                /\ flight' = flight
    /\ stack' = Pop
    /\ UNCHANGED <<_CONTRACT_CHECKING_ENABLED, heapVars, argst>>

\* (variant: the wrapper calls func without checking)
EntryUnchecked(kind) ==
    /\ Running(kind, "enter")
    /\ stack' = CallInner
    /\ UNCHANGED <<_CONTRACT_CHECKING_ENABLED, heapVars, argst, flight, trace>>

PreEnterUnchecked == EntryUnchecked("precondition")

InvEnterUnchecked == EntryUnchecked("invariant")

PreEnter == EntryCheck("precondition")

\* (variant: func is called inside the try statement, so that the handler
\* also gets what func raises)
PreReturnInsideTry ==
    /\ Running("precondition", "after")
    /\ flight.tag # "none"
    /\ flight' = IF flight.tag = "raise" THEN Handler("precondition", flight) ELSE flight
    /\ stack' = Pop
    /\ UNCHANGED <<_CONTRACT_CHECKING_ENABLED, heapVars, argst, trace>>

\* return func(*args, **kwargs): line 202
PreReturn ==
    /\ Running("precondition", "after")
    /\ flight.tag # "none"
    /\ stack' = Pop
    /\ UNCHANGED <<_CONTRACT_CHECKING_ENABLED, heapVars, argst, flight, trace>>

\* (variant: the postcondition is also evaluated before func is called)
PostEnterChecksFirst == EntryCheck("postcondition")

\* result = func(*args, **kwargs): line 232
PostEnter ==
    /\ Running("postcondition", "enter")
    /\ stack' = CallInner
    /\ UNCHANGED <<_CONTRACT_CHECKING_ENABLED, heapVars, argst, flight, trace>>

\* (variant: when its predicate returns False the postcondition wrapper
\* calls func again)
PostAfterRetries ==
    /\ Running("postcondition", "after")
    /\ flight.tag # "none"
    /\ LET f == Top.f
           o == EvalCond(funcs[f].cond, flight.val, argst)
       IN  IF flight.tag = "return" /\ Checking(f) /\ o = "false"
           THEN /\ trace' = trace \o <<Poll(f, "exit"), Eval(f, "exit", o)>>
                /\ stack' = Append(stack, Frame(funcs[f].inner))
                /\ flight' = NoFlight
                /\ UNCHANGED <<_CONTRACT_CHECKING_ENABLED, heapVars, argst>>
           ELSE ExitCheck("postcondition")

PostAfter == ExitCheck("postcondition")

InvEnter == EntryCheck("invariant")

InvAfter == ExitCheck("invariant")

\* the body of the generic function f runs
BodyF ==
    /\ Running("body", "enter")
    /\ funcs[Top.f].name = "f"
    /\ \E o \in BodyOutcomes(argst) :
          /\ flight' = o.fl
          /\ argst' = o.args
          /\ trace' = Append(trace, Body(Top.f, o.fl))
    /\ stack' = Pop
    /\ UNCHANGED <<_CONTRACT_CHECKING_ENABLED, heapVars>>

\* the caller receives the outcome of the call
Receive ==
    /\ Done
    /\ flight' = NoFlight
    /\ argst' = NoArgs
    /\ trace' = <<>>
    /\ UNCHANGED <<_CONTRACT_CHECKING_ENABLED, heapVars, stack>>

InitCall ==
    /\ stack = <<>>
    /\ argst = NoArgs
    /\ flight = NoFlight
    /\ trace = <<>>

\* the module is imported, then one function f is defined
Init ==
    /\ \E env \in Environments : _CONTRACT_CHECKING_ENABLED = DefaultEnabled(env)
    /\ funcs = <<NewFunction("f")>>
    /\ metas = <<>>
    /\ decorTime = _CONTRACT_CHECKING_ENABLED
    /\ InitCall

Next ==
    \/ enable_contracts
    \/ disable_contracts
    \/ precondition
    \/ postcondition
    \/ invariant
    \/ CallF
    \/ PreEnter
    \/ PreReturn
    \/ PostEnter
    \/ PostAfter
    \/ InvEnter
    \/ InvAfter
    \/ BodyF
    \/ Receive

Spec == Init /\ [][Next]_vars

(***************************************************************************)
(* Decoration alone, no call: the condition decorators stacked on one      *)
(* function, the metadata-only decorators applied to any layer of the      *)
(* stack (by hand, to a callable that is already wrapped).                 *)
(***************************************************************************)
Descriptions == {"d1", "d2"}

RaisesLists == {<<"ValueError">>, <<"KeyError", "ValueError">>}

\* (variant: the metadata-only decorator returns a new wrapper around f, one
\* that checks a predicate)
AnnotateWraps(key, values, targets) ==
    /\ \E f \in targets, v \in values :
          LET h1 == SetSlot(Heap(funcs, metas), f, key, v)
              h == MakeWrapper(h1, f, "precondition", "P1")
          IN  /\ funcs' = h.funcs
              /\ metas' = h.metas
    /\ UNCHANGED <<_CONTRACT_CHECKING_ENABLED, decorTime, callVars>>

\* specification(v)(f), pre_description(v)(f), post_description(v)(f),
\* invariant_description(v)(f), raises(v)(f), for f among targets: the
\* callable f itself is returned
AnnotateAt(key, values, targets) ==
    /\ \E f \in targets, v \in values :
          LET h == SetSlot(Heap(funcs, metas), f, key, v)
          IN  /\ funcs' = h.funcs
              /\ metas' = h.metas
    /\ UNCHANGED <<_CONTRACT_CHECKING_ENABLED, decorTime, callVars>>

\* a metadata-only decorator applied by hand to any callable of the stack
Annotate(key, values) == AnnotateAt(key, values, 1..Len(funcs))

specification == Annotate("specification", Descriptions)
pre_description == Annotate("pre_description", Descriptions)
post_description == Annotate("post_description", Descriptions)
invariant_description == Annotate("invariant_description", Descriptions)
raises == Annotate("raises", RaisesLists)

NextMeta ==
    \/ enable_contracts
    \/ disable_contracts
    \/ specification
    \/ pre_description
    \/ post_description
    \/ invariant_description
    \/ raises
    \/ precondition
    \/ postcondition
    \/ invariant

SpecMeta == Init /\ [][NextMeta]_vars

(***************************************************************************)
(* Decoration and calls together, under the flag as start-up left it: the  *)
(* metadata-only decorators applied to the callable the name is bound to,  *)
(* in any order, any number of times and at any moment (also while a call  *)
(* is in flight), each with one value.                                     *)
(***************************************************************************)
OneValue(key) == IF key = "raises" THEN {<<"ValueError">>} ELSE {"d1"}

\* what callable f of heap (fs, ms) shows under key: {} when absent
Slot(fs, ms, f, key) ==
    IF fs[f].meta = 0 THEN {}
    ELSE IF HasKey(ms[fs[f].meta], key) THEN {ms[fs[f].meta][key]} ELSE {}

\* @specification(v), @pre_description(v), ... written above a function
Label(key) == AnnotateAt(key, OneValue(key), {Outermost})

NextAnnotated ==
    \/ Label("specification")
    \/ Label("pre_description")
    \/ Label("post_description")
    \/ Label("invariant_description")
    \/ Label("raises")
    \/ precondition
    \/ postcondition
    \/ invariant
    \/ CallF
    \/ PreEnter
    \/ PreReturn
    \/ PostEnter
    \/ PostAfter
    \/ InvEnter
    \/ InvAfter
    \/ BodyF
    \/ Receive

SpecAnnotated == Init /\ [][NextAnnotated]_vars

(***************************************************************************)
(* The example module main.py: div and sqrt as decorated there, called     *)
(* with numbers.                                                           *)
(***************************************************************************)
\* the decorators of one example function, applied bottom-up to callable f
\* of heap h: postcondition, precondition, post_description,
\* pre_description, specification
MainDecorators(h, f, name, post, pre, spec) ==
    LET h1 == Wrap(h, f, "postcondition", name \o "_postcondition")
        h2 == Wrap(h1, f + 1, "precondition", name \o "_precondition")
        h3 == SetSlot(h2, f + 2, "post_description", post)
        h4 == SetSlot(h3, f + 2, "pre_description", pre)
    IN  SetSlot(h4, f + 2, "specification", spec)

\* the heap once main.py is imported: div is callable 3, sqrt is callable 6
MainHeap ==
    LET h0 == Heap(<<NewFunction("div")>>, <<>>)
        h1 == MainDecorators(h0, 1, "div",
                  "Returns the integer division of a by b",
                  "Both arguments must be integers, divisor cannot be zero",
                  "Divides two integers and returns the result")
        h2 == Heap(Append(h1.funcs, NewFunction("sqrt")), h1.metas)
    IN  MainDecorators(h2, 4, "sqrt",
                  "Result squared equals the input",
                  "Input must be non-negative",
                  "Computes the square root of a non-negative number")

DivCallable == 3
SqrtCallable == 6

InitMain ==
    /\ \E env \in Environments : _CONTRACT_CHECKING_ENABLED = DefaultEnabled(env)
    /\ funcs = MainHeap.funcs
    /\ metas = MainHeap.metas
    /\ decorTime = _CONTRACT_CHECKING_ENABLED
    /\ InitCall

CallDiv == \E a \in DivArgs : Call(DivCallable, a)

CallSqrt == \E a \in SqrtArgs : Call(SqrtCallable, a)

\* the body of div or of sqrt runs
BodyMain ==
    /\ Running("body", "enter")
    /\ funcs[Top.f].name \in {"div", "sqrt"}
    /\ flight' = IF funcs[Top.f].name = "div" THEN div(argst) ELSE sqrt(argst)
    /\ trace' = Append(trace, Body(Top.f, flight'))
    /\ stack' = Pop
    /\ UNCHANGED <<_CONTRACT_CHECKING_ENABLED, heapVars, argst>>

NextMain ==
    \/ enable_contracts
    \/ disable_contracts
    \/ CallDiv
    \/ CallSqrt
    \/ PreEnter
    \/ PreReturn
    \/ PostEnter
    \/ PostAfter
    \/ BodyMain
    \/ Receive

SpecMain == InitMain /\ [][NextMain]_vars

(***************************************************************************)
(* Reading the log of the call in flight.                                  *)
(***************************************************************************)
\* the callable the caller called
Root == trace[1].f

RECURSIVE Chain(_)
\* the layers a call of callable f can run: f, what it wraps, ... the body
Chain(f) == IF funcs[f].kind = "body" THEN {f} ELSE {f} \cup Chain(funcs[f].inner)

Layers(kind) == {f \in 1..Len(funcs) : funcs[f].kind = kind}

PollAt(i, f, at) == trace[i].ev = "poll" /\ trace[i].f = f /\ trace[i].at = at
EvalAt(i, f, at) == trace[i].ev = "eval" /\ trace[i].f = f /\ trace[i].at = at

\* the poll logged at i is followed by the evaluation of the predicate
Checked(i) ==
    /\ i < Len(trace)
    /\ EvalAt(i + 1, trace[i].f, trace[i].at)

BodyRunsBefore(i) == Cardinality({j \in 1..(i - 1) : trace[j].ev = "body"})
BodyRuns == BodyRunsBefore(Len(trace) + 1)

\* wrapper f let the call through at its entry: it read the flag and, the
\* flag being set, its predicate returned True
EntryPassedBefore(i, f) ==
    \E j \in 1..(i - 1) :
        /\ PollAt(j, f, "entry")
        /\ trace[j].val = "true" => (Checked(j) /\ trace[j + 1].val = "true")

RECURSIVE CondsOfKind(_, _)
\* the predicates of the wrappers of one kind among callables 1..n, oldest first
CondsOfKind(kind, n) ==
    IF n = 0 THEN <<>>
    ELSE CondsOfKind(kind, n - 1) \o
         (IF funcs[n].kind = kind THEN <<funcs[n].cond>> ELSE <<>>)

Occurs(x, seq) == \E k \in DOMAIN seq : seq[k] = x

(***************************************************************************)
(* C1: a precondition wrapper that runs while the flag is set evaluates    *)
(* its predicate; when the predicate returns False the call raises         *)
(* PreconditionViolation and the body has not run and never runs; the body *)
(* runs only after every precondition wrapper above it let the call pass.  *)
(***************************************************************************)
C1_PreconditionGuardsBody ==
    \A f \in Layers("precondition") :
        /\ \A i \in DOMAIN trace :
              (PollAt(i, f, "entry") /\ trace[i].val = "true") => Checked(i)
        /\ \A i \in DOMAIN trace :
              (EvalAt(i, f, "entry") /\ trace[i].val = "false") =>
                  /\ flight = Raised("PreconditionViolation", "Precondition violated")
                  /\ BodyRuns = 0
        /\ \A i \in DOMAIN trace :
              (trace[i].ev = "body" /\ f \in Chain(Root)) => EntryPassedBefore(i, f)

C1_Witness ==
    /\ Done
    /\ BodyRuns = 0
    /\ flight = Raised("PreconditionViolation", "Precondition violated")
    /\ \E i \in DOMAIN trace :
          /\ funcs[trace[i].f].kind = "precondition"
          /\ EvalAt(i, trace[i].f, "entry")
          /\ trace[i].val = "false"

(***************************************************************************)
(* C2: a postcondition wrapper reads the flag and evaluates its predicate  *)
(* only after the body has run, exactly once; when the predicate returns   *)
(* False the call raises PostconditionViolation with the body already run; *)
(* a call through postcondition wrappers alone runs the body first,        *)
(* whatever the flag.                                                      *)
(***************************************************************************)
C2_PostconditionAfterBody ==
    /\ \A f \in Layers("postcondition") :
          /\ \A i \in DOMAIN trace :
                (trace[i].f = f /\ trace[i].ev \in {"poll", "eval"}) =>
                    BodyRunsBefore(i) = 1
          /\ \A i \in DOMAIN trace :
                (EvalAt(i, f, "exit") /\ trace[i].val = "false") =>
                    /\ flight = Raised("PostconditionViolation", "Postcondition violated")
                    /\ BodyRuns = 1
    /\ (/\ Len(trace) >= 2
        /\ \A l \in Chain(Root) : funcs[l].kind \in {"postcondition", "body"})
          => trace[2].ev = "body"
    /\ (/\ Done
        /\ \A l \in Chain(Root) : funcs[l].kind \in {"postcondition", "body"})
          => BodyRuns = 1

C2_Witness ==
    /\ Done
    /\ BodyRuns = 1
    /\ flight = Raised("PostconditionViolation", "Postcondition violated")
    /\ \E i \in DOMAIN trace :
          /\ funcs[trace[i].f].kind = "postcondition"
          /\ EvalAt(i, trace[i].f, "exit")
          /\ trace[i].val = "false"
          /\ trace[i - 2].ev = "body"

(***************************************************************************)
(* C3: in a call during which every wrapper finds the flag cleared, no     *)
(* predicate is evaluated, the body runs once and the caller gets exactly  *)
(* what the body returned or raised.                                       *)
(***************************************************************************)
C3_DisabledIsBypass ==
    (/\ trace # <<>>
     /\ \A i \in DOMAIN trace : trace[i].ev = "poll" => trace[i].val = "false")
      => /\ \A i \in DOMAIN trace : trace[i].ev # "eval"
         /\ Done =>
              /\ BodyRuns = 1
              /\ \E i \in DOMAIN trace :
                    /\ trace[i].ev = "body"
                    /\ flight = IF trace[i].val = "return"
                                THEN Returned(trace[i].res)
                                ELSE Raised(trace[i].val, "raised by body")

C3_Witness ==
    /\ Done
    /\ Len(funcs) = 3
    /\ funcs[2].kind # funcs[3].kind
    /\ \A f \in 2..3 : EvalCond(funcs[f].cond, 0, argst) = "false"
    /\ \A i \in DOMAIN trace : trace[i].ev = "poll" => trace[i].val = "false"
    /\ \E i \in DOMAIN trace : trace[i].ev = "poll"
    /\ flight.tag = "return"

\* two preconditions stacked on the function: callable 2 holds the predicate
\* applied first, callable 3 the predicate applied second
TwoPreconditions ==
    /\ Len(funcs) >= 3
    /\ funcs[2].kind = "precondition"
    /\ funcs[3].kind = "precondition"

(***************************************************************************)
(* C4 as stated: of two stacked preconditions, the predicate applied first *)
(* is evaluated before the predicate applied second.                       *)
(***************************************************************************)
C4_ApplicationOrder ==
    (TwoPreconditions /\ funcs[2].cond # funcs[3].cond) =>
        \A i \in DOMAIN trace :
            EvalAt(i, 3, "entry") => \E j \in 1..(i - 1) : EvalAt(j, 2, "entry")

(***************************************************************************)
(* C4 amended: of two stacked preconditions the predicate applied second   *)
(* (the outer wrapper) is evaluated first: the wrapper applied first runs  *)
(* only after the outer wrapper let the call pass; when the outer          *)
(* predicate returns False the call raises its PreconditionViolation and   *)
(* the predicate applied first is never evaluated; the body runs only      *)
(* after both.                                                             *)
(***************************************************************************)
C4_ReverseApplicationOrder ==
    TwoPreconditions =>
        /\ \A i \in DOMAIN trace :
              (trace[i].f = 2 /\ trace[i].ev \in {"poll", "eval"}) =>
                  EntryPassedBefore(i, 3)
        /\ \A i \in DOMAIN trace :
              (EvalAt(i, 3, "entry") /\ trace[i].val = "false") =>
                  /\ \A j \in DOMAIN trace : trace[j].f = 2 => trace[j].ev = "call"
                  /\ flight = Raised("PreconditionViolation", "Precondition violated")
        /\ \A i \in DOMAIN trace :
              trace[i].ev = "body" =>
                  \E j, k \in 1..(i - 1) :
                      j < k /\ PollAt(j, 3, "entry") /\ PollAt(k, 2, "entry")

C4_Witness ==
    /\ TwoPreconditions
    /\ Done
    /\ funcs[2].cond # funcs[3].cond
    /\ EvalCond(funcs[2].cond, 0, argst) = "false"
    /\ \E i \in DOMAIN trace : EvalAt(i, 3, "entry") /\ trace[i].val = "false"
    /\ \A j \in DOMAIN trace : trace[j].f # 2
    /\ flight = Raised("PreconditionViolation", "Precondition violated")

(***************************************************************************)
(* C5 as stated: a ContractViolation of any kind raised by the predicate   *)
(* of any wrapper reaches the caller with its kind unchanged.              *)
(***************************************************************************)
C5_ViolationKindsPropagate ==
    \A i \in DOMAIN trace :
        (trace[i].ev = "eval" /\ trace[i].val \in ViolationKinds) =>
            flight = Raised(trace[i].val, "raised by predicate")

(***************************************************************************)
(* C5 amended: a violation raised by the predicate reaches the caller      *)
(* unchanged when its kind is the wrapper's own violation kind; a          *)
(* violation of any other kind (the base kind, another leaf kind) is       *)
(* replaced by a new violation of the wrapper's own kind.                  *)
(***************************************************************************)
C5_OnlyOwnKindPropagates ==
    \A i \in DOMAIN trace :
        (trace[i].ev = "eval" /\ trace[i].val \in ViolationKinds) =>
            LET kind == funcs[trace[i].f].kind
            IN  flight = IF trace[i].val = OwnViolation(kind)
                         THEN Raised(trace[i].val, "raised by predicate")
                         ELSE Raised(OwnViolation(kind), EvaluatingMsg(kind))

C5_Witness ==
    /\ Done
    /\ \E i \in DOMAIN trace :
          /\ trace[i].ev = "eval"
          /\ funcs[trace[i].f].kind = "precondition"
          /\ trace[i].val = "PostconditionViolation"
    /\ flight = Raised("PreconditionViolation", "Error evaluating precondition")

(***************************************************************************)
(* C6: every wrapper sees the very dict its inner callable sees, so that   *)
(* what is written through one layer is read through all; and the dict     *)
(* seen through a callable lists the predicate of every wrapper of its     *)
(* chain under that wrapper's kind.                                        *)
(***************************************************************************)
C6_OneCarrierThroughAllLayers ==
    \A w \in 1..Len(funcs) :
        funcs[w].kind # "body" =>
            /\ funcs[w].meta # 0
            /\ Carrier(w) = Carrier(funcs[w].inner)
            /\ \A l \in Chain(w) :
                  funcs[l].kind # "body" =>
                      Occurs(funcs[l].cond, CarrierList(w, ListKey(funcs[l].kind)))

C6_Witness ==
    /\ Len(funcs) = 3
    /\ funcs[2].kind = "postcondition"
    /\ funcs[3].kind = "precondition"
    /\ HasKey(Carrier(1), "preconditions")
    /\ HasKey(Carrier(3), "postconditions")
    /\ HasKey(Carrier(1), "specification")
    /\ HasKey(Carrier(2), "raises")
    /\ HasKey(Carrier(3), "invariant_description")

(***************************************************************************)
(* C7: the preconditions list seen through every callable holds the        *)
(* predicates of the precondition decorators applied so far, in the order  *)
(* of application: two of them give a list of length 2.  Registration is   *)
(* done by the decorator, whatever the flag, no call being made.           *)
(***************************************************************************)
C7_PreconditionsInApplicationOrder ==
    /\ \A f \in 1..Len(funcs) :
          CarrierList(f, "preconditions") = CondsOfKind("precondition", Len(funcs))
    /\ Cardinality(Layers("precondition")) = 2 =>
          Len(CarrierList(Outermost, "preconditions")) = 2

C7_Witness ==
    /\ ~_CONTRACT_CHECKING_ENABLED
    /\ ~decorTime
    /\ Len(funcs) = 3
    /\ CarrierList(3, "preconditions") = <<"P2", "P1">>
    /\ funcs[2].cond = "P2"
    /\ HasKey(Carrier(3), "pre_description")
    /\ HasKey(Carrier(3), "raises")

(***************************************************************************)
(* C8: an invariant wrapper that runs while the flag is set evaluates its  *)
(* predicate before the call: when it returns False the call raises        *)
(* InvariantViolation (before execution) and the body never runs; when it  *)
(* returned True before and returns False after, the body has run exactly  *)
(* once and the call raises InvariantViolation (after execution); the body *)
(* runs only after every invariant wrapper above it let the call pass.     *)
(***************************************************************************)
C8_InvariantBeforeAndAfter ==
    \A f \in Layers("invariant") :
        /\ \A i \in DOMAIN trace :
              (EvalAt(i, f, "entry") /\ trace[i].val = "false") =>
                  /\ flight = Raised("InvariantViolation",
                                     "Invariant violated before execution")
                  /\ BodyRuns = 0
        /\ \A i \in DOMAIN trace :
              (EvalAt(i, f, "entry") /\ trace[i].val = "true") =>
                  \A j \in DOMAIN trace :
                      (EvalAt(j, f, "exit") /\ trace[j].val = "false") =>
                          /\ flight = Raised("InvariantViolation",
                                             "Invariant violated after execution")
                          /\ BodyRuns = 1
                          /\ BodyRunsBefore(j) = 1
                          /\ BodyRunsBefore(i) = 0
        /\ \A i \in DOMAIN trace :
              (trace[i].ev = "body" /\ f \in Chain(Root)) => EntryPassedBefore(i, f)

C8_Witness ==
    /\ Done
    /\ BodyRuns = 1
    /\ flight = Raised("InvariantViolation", "Invariant violated after execution")
    /\ \E i, j \in DOMAIN trace :
          /\ funcs[trace[i].f].kind = "invariant"
          /\ EvalAt(i, trace[i].f, "entry") /\ trace[i].val = "true"
          /\ EvalAt(j, trace[i].f, "exit") /\ trace[j].val = "false"

(***************************************************************************)
(* C9: a wrapper evaluates its predicate exactly when the flag is set at   *)
(* the moment the wrapper reads it during the call, whatever the flag was  *)
(* when the wrapper was created and whatever was toggled in between.       *)
(***************************************************************************)
C9_CheckFollowsCurrentFlag ==
    \A i \in DOMAIN trace :
        trace[i].ev = "poll" => (trace[i].val = "true" <=> Checked(i))

C9_Witness ==
    /\ Done
    /\ ~decorTime
    /\ funcs[Outermost].kind = "precondition"
    /\ PollAt(2, Outermost, "entry")
    /\ trace[2].val = "true"
    /\ trace[3].val = "false"
    /\ flight.exc = "PreconditionViolation"

(***************************************************************************)
(* C10: div of main.py.  Called with (10, 0) while the flag is set it      *)
(* raises PreconditionViolation, the body not run and the postcondition    *)
(* not evaluated; called with (10, 2) it returns 5; called with (10, 0)    *)
(* while the flag is cleared it raises the body's ZeroDivisionError.       *)
(***************************************************************************)
C10_DivExample ==
    (trace # <<>> /\ Root = DivCallable) =>
        /\ (/\ argst = [a |-> 10, b |-> 0]
            /\ \E i \in DOMAIN trace : PollAt(i, DivCallable, "entry") /\ trace[i].val = "true")
              => /\ flight = Raised("PreconditionViolation", "Precondition violated")
                 /\ BodyRuns = 0
                 /\ \A i \in DOMAIN trace : funcs[trace[i].f].kind # "postcondition"
        /\ (Done /\ argst = [a |-> 10, b |-> 2]) => flight = Returned(5)
        /\ (/\ Done
            /\ argst = [a |-> 10, b |-> 0]
            /\ \E i \in DOMAIN trace : PollAt(i, DivCallable, "entry") /\ trace[i].val = "false")
              => /\ flight = Raised("ZeroDivisionError", "raised by body")
                 /\ BodyRuns = 1

C10_Witness ==
    /\ Done
    /\ Root = DivCallable
    /\ argst = [a |-> 10, b |-> 0]
    /\ flight = Raised("PreconditionViolation", "Precondition violated")
    /\ Len(trace) = 3

(***************************************************************************)
(* C11: when the body raises, nothing is evaluated after it: no wrapper    *)
(* reads the flag or evaluates its predicate on the exit side, and what    *)
(* travels to the caller is the body's exception, its class unchanged.     *)
(***************************************************************************)
C11_BodyErrorSkipsExitCheck ==
    \A i \in DOMAIN trace :
        (trace[i].ev = "body" /\ trace[i].val # "return") =>
            /\ i = Len(trace)
            /\ \A j \in DOMAIN trace : trace[j].at # "exit"
            /\ flight = Raised(trace[i].val, "raised by body")

C11_Witness ==
    /\ Done
    /\ _CONTRACT_CHECKING_ENABLED
    /\ Len(funcs) = 3
    /\ funcs[2].kind = "postcondition"
    /\ funcs[3].kind = "invariant"
    /\ \E i \in DOMAIN trace :
          EvalAt(i, 3, "entry") /\ trace[i].val = "true" /\ trace[i - 1].val = "true"
    /\ EvalCond(funcs[2].cond, 0, argst) = "false"
    /\ trace[Len(trace)].ev = "body"
    /\ flight = Raised("ValueError", "raised by body")

\* the keys written by the metadata-only decorators
SlotKeys ==
    {"specification", "pre_description", "post_description",
     "invariant_description", "raises"}

\* a callable without its _contract_metadata attribute
Bare(c) == [kind |-> c.kind, cond |-> c.cond, inner |-> c.inner, name |-> c.name]

\* a step that changes what some callable shows under a metadata-only key
AnnotateStep ==
    \E f \in 1..Len(funcs), key \in SlotKeys :
        Slot(funcs', metas', f, key) # Slot(funcs, metas, f, key)

(***************************************************************************)
(* C12: a metadata-only decorator creates no callable (the name stays      *)
(* bound to the callable it was given), changes the code of no callable    *)
(* (its kind, its predicate, what it wraps), does not touch the flag, and  *)
(* does not disturb the call in flight; so what a call evaluates and how   *)
(* it ends is what it is without the decorator.                            *)
(***************************************************************************)
C12_MetadataDecoratorsAreTransparent ==
    [][AnnotateStep =>
          /\ Len(funcs') = Len(funcs)
          /\ \A f \in 1..Len(funcs) : Bare(funcs'[f]) = Bare(funcs[f])
          /\ _CONTRACT_CHECKING_ENABLED' = _CONTRACT_CHECKING_ENABLED
          /\ callVars' = callVars]_vars

C12_Witness ==
    /\ Done
    /\ Len(funcs) = 3
    /\ \A key \in SlotKeys : Slot(funcs, metas, Root, key) # {}
    /\ \E i \in DOMAIN trace : EvalAt(i, 3, "entry") /\ trace[i].val = "true"
    /\ \E i \in DOMAIN trace : EvalAt(i, 2, "exit") /\ trace[i].val = "false"
    /\ flight.tag = "raise"

\* "except cls:" around the call catches what the call raised
Catches(cls) == flight.tag = "raise" /\ IsInstance(flight.exc, cls)

LeafViolationKinds ==
    {"PreconditionViolation", "PostconditionViolation", "InvariantViolation"}

(***************************************************************************)
(* C13: a stub marker raised by the body travels to the caller as it is,   *)
(* through every wrapper, whatever the flag; a call ends with a stub       *)
(* marker only when its body raised it; "except ContractViolation" catches *)
(* a raised exception exactly when it is of a violation kind, so it        *)
(* catches the three leaf kinds and never a stub marker.                   *)
(***************************************************************************)
C13_StubMarkersAreNotViolations ==
    /\ \A i \in DOMAIN trace :
          (trace[i].ev = "body" /\ trace[i].val \in StubKinds) =>
              /\ flight = Raised(trace[i].val, "raised by body")
              /\ ~Catches("ContractViolation")
    /\ (flight.tag = "raise" /\ flight.exc \in StubKinds) =>
          /\ trace[Len(trace)].ev = "body"
          /\ trace[Len(trace)].val = flight.exc
    /\ flight.tag = "raise" =>
          (Catches("ContractViolation") <=> flight.exc \in ViolationKinds)
    /\ \A k \in LeafViolationKinds : IsInstance(k, "ContractViolation")
    /\ \A k \in StubKinds : ~IsInstance(k, "ContractViolation")

C13_Witness ==
    /\ Done
    /\ Len(funcs) = 3
    /\ funcs[2].kind = "postcondition"
    /\ funcs[3].kind = "precondition"
    /\ \E i \in DOMAIN trace :
          EvalAt(i, 3, "entry") /\ trace[i].val = "true" /\ trace[i - 1].val = "true"
    /\ trace[Len(trace)].val = "ImplementThis"
    /\ flight = Raised("ImplementThis", "raised by body")
    /\ ~Catches("ContractViolation")
    /\ Catches("ImplementThis")

\* the keys written by the condition decorators
ListKeys == {"preconditions", "postconditions", "invariants"}

\* the list callable f of heap (fs, ms) shows under key: <<>> when absent
List(fs, ms, f, key) ==
    IF fs[f].meta = 0 THEN <<>>
    ELSE IF HasKey(ms[fs[f].meta], key) THEN ms[fs[f].meta][key] ELSE <<>>

IsPrefix(s, t) == Len(s) <= Len(t) /\ SubSeq(t, 1, Len(s)) = s

\* the values a metadata-only decorator is applied with
SlotValues(key) == IF key = "raises" THEN RaisesLists ELSE Descriptions

\* the dict callable f of heap h shows
CarrierIn(h, f) == IF h.funcs[f].meta = 0 THEN EmptyDict ELSE h.metas[h.funcs[f].meta]

\* dict d, key left out
Without(d, key) == [k \in DOMAIN d \ {key} |-> d[k]]

(***************************************************************************)
(* C14: whatever a callable already shows, a metadata-only decorator       *)
(* applied to it with value v leaves exactly v under its key (for raises   *)
(* the list v, nothing of an earlier list), and leaves every other key,    *)
(* the three lists among them, as it was.  And along every step of any     *)
(* decorator a dict keeps its keys, a list that changes has grown at its   *)
(* end, and any other value that changes is one of the applied values.     *)
(***************************************************************************)
C14_SlotsOverwriteListsGrow ==
    /\ [](\A f \in 1..Len(funcs), key \in SlotKeys :
            LET old == Without(Carrier(f), key)
            IN  \A v \in SlotValues(key) :
                    LET d == CarrierIn(SetSlot(Heap(funcs, metas), f, key, v), f)
                    IN  /\ HasKey(d, key)
                        /\ d[key] = v
                        /\ Without(d, key) = old)
    /\ [][metas' # metas =>
             \A m \in 1..Len(metas) :
                 \A k \in DOMAIN metas[m] :
                     /\ HasKey(metas'[m], k)
                     /\ metas'[m][k] # metas[m][k] =>
                           IF k \in ListKeys
                           THEN IsPrefix(metas[m][k], metas'[m][k])
                           ELSE metas'[m][k] \in SlotValues(k)]_vars

C14_Witness ==
    /\ Len(funcs) = 3
    /\ Slot(funcs, metas, Outermost, "raises") = {<<"KeyError", "ValueError">>}
    /\ Slot(funcs, metas, Outermost, "specification") = {"d1"}
    /\ Len(List(funcs, metas, Outermost, "preconditions")) = 2
    /\ ENABLED (/\ raises
                /\ Slot(funcs', metas', Outermost, "raises") = {<<"ValueError">>}
                /\ Slot(funcs', metas', Outermost, "specification") = {"d1"}
                /\ Len(List(funcs', metas', Outermost, "preconditions")) = 2)

(***************************************************************************)
(* C15: in every state, also while a call is in flight, both operations    *)
(* can run; enable_contracts() leaves contracts_enabled() true and         *)
(* disable_contracts() leaves it false, whatever it was; run again it      *)
(* changes nothing at all; a step changes what contracts_enabled() returns *)
(* only when it is one of the two operations, and then it changes nothing  *)
(* else.  So contracts_enabled() is what the most recent operation left,   *)
(* or the start-up default.                                                *)
(***************************************************************************)
C15_ToggleIsLastWriter ==
    /\ [](/\ contracts_enabled \in BOOLEAN
          /\ ENABLED enable_contracts
          /\ ENABLED disable_contracts
          /\ contracts_enabled => ENABLED (enable_contracts /\ UNCHANGED vars)
          /\ ~contracts_enabled => ENABLED (disable_contracts /\ UNCHANGED vars))
    /\ [][/\ enable_contracts => contracts_enabled'
          /\ disable_contracts => ~contracts_enabled'
          /\ contracts_enabled' # contracts_enabled =>
                /\ UNCHANGED <<heapVars, callVars>>
                /\ contracts_enabled' => enable_contracts
                /\ ~contracts_enabled' => disable_contracts]_vars

C15_Witness ==
    /\ Done
    /\ ~contracts_enabled
    /\ \E i, j \in DOMAIN trace :
          /\ i < j
          /\ trace[i].ev = "poll" /\ trace[i].val = "false"
          /\ trace[j].ev = "poll" /\ trace[j].val = "true"

\* the same character, or the same letter in the other case
SameLetter(c, d) ==
    \/ c = d
    \/ {c, d} \in {{"T", "t"}, {"R", "r"}, {"U", "u"}, {"E", "e"},
                   {"Y", "y"}, {"S", "s"}, {"O", "o"}, {"N", "n"}}

EqualsIgnoringCase(s, t) ==
    /\ Len(s) = Len(t)
    /\ \A i \in 1..Len(s) : SameLetter(s[i], t[i])

\* the start-up value for every environment of the model, against the tokens
TokensDecideDefault ==
    /\ \A env \in Environments :
          DefaultEnabled(env) <=>
              /\ env.present
              /\ \E t \in {<<"1">>, <<"t", "r", "u", "e">>, <<"y", "e", "s">>} :
                    EqualsIgnoringCase(env.value, t)
    /\ ~DefaultEnabled([present |-> FALSE, value |-> <<>>])
    /\ ~DefaultEnabled([present |-> TRUE, value |-> <<>>])

(***************************************************************************)
(* C16: for every environment, the start-up value of the flag is true      *)
(* exactly when CONTRACTS_ENABLED is set and equals, letter case ignored,  *)
(* one of 1, true, yes; unset, empty or anything else gives false.  Until  *)
(* a decorator is applied decorTime holds the start-up value: it is the    *)
(* value computed from one of the environments.                            *)
(***************************************************************************)
C16_StartUpDefault ==
    /\ TokensDecideDefault
    /\ Len(funcs) = 1 =>
          \E env \in Environments : decorTime = DefaultEnabled(env)

C16_Witness ==
    /\ Len(funcs) = 1
    /\ decorTime
    /\ decorTime = DefaultEnabled([present |-> TRUE, value |-> <<"T", "r", "u", "e">>])
    /\ ~contracts_enabled
    /\ Idle

(***************************************************************************)
(* C17: when the predicate of a wrapper, evaluated because the flag is     *)
(* set, raises an exception that is not of a violation kind, the call      *)
(* raises a new violation of the wrapper's own kind in its place; raised   *)
(* by an entry-side check, the body has not run and never runs; raised by  *)
(* an exit-side check, the body has run once.                              *)
(***************************************************************************)
C17_PredicateErrorBecomesOwnViolation ==
    \A i \in DOMAIN trace :
        (/\ trace[i].ev = "eval"
         /\ trace[i].val \notin {"true", "false"}
         /\ ~IsInstance(trace[i].val, "ContractViolation")) =>
            LET kind == funcs[trace[i].f].kind
            IN  /\ flight = Raised(OwnViolation(kind), EvaluatingMsg(kind))
                /\ flight.exc # trace[i].val
                /\ trace[i - 1] = [ev |-> "poll", f |-> trace[i].f, at |-> trace[i].at,
                                   val |-> "true", res |-> 0]
                /\ BodyRuns = IF trace[i].at = "entry" THEN 0 ELSE 1

C17_Witness ==
    /\ Done
    /\ Len(funcs) = 3
    /\ funcs[2].kind = "postcondition"
    /\ funcs[3].kind = "invariant"
    /\ EvalAt(3, 3, "entry")
    /\ trace[3].val = "ValueError"
    /\ BodyRuns = 0
    /\ flight = Raised("InvariantViolation", "Error evaluating invariant")

RECURSIVE Wraps(_, _)
\* wrapper f is a layer around callable g: f wraps g, or wraps a wrapper around g
Wraps(f, g) ==
    /\ funcs[f].kind # "body"
    /\ (funcs[f].inner = g \/ Wraps(funcs[f].inner, g))

\* the kinds of wrapper that check on the way in, on the way out
EntryKinds == {"precondition", "invariant"}
ExitKinds == {"postcondition", "invariant"}

(***************************************************************************)
(* C18: in the log of a call a wrapper evaluates its predicate right after *)
(* reading the flag; of two layers that reach their entry-side check the   *)
(* earlier one is around the later one, of two layers that reach their     *)
(* exit-side check the later one is around the earlier one; all entry-side *)
(* checks come before the body runs, all exit-side checks after.  And no   *)
(* layer is skipped: an inner layer        *)
(* reaches its entry-side check only after every precondition or invariant *)
(* layer around it reached its own, and an outer layer reaches its         *)
(* exit-side check only after every postcondition or invariant layer       *)
(* inside it reached its own.  So stacked postconditions are evaluated     *)
(* innermost first.                                                        *)
(***************************************************************************)
C18_OutermostFirstInLastOut ==
    trace # <<>> =>
        LET entries == {i \in DOMAIN trace : trace[i].ev = "poll" /\ trace[i].at = "entry"}
            exits == {i \in DOMAIN trace : trace[i].ev = "poll" /\ trace[i].at = "exit"}
            bodies == {i \in DOMAIN trace : trace[i].ev = "body"}
            layers == Chain(Root)
        IN  /\ \A i \in DOMAIN trace :
                  trace[i].ev = "eval" => PollAt(i - 1, trace[i].f, trace[i].at)
            /\ \A i, j \in entries : i < j => Wraps(trace[i].f, trace[j].f)
            /\ \A i, j \in exits : i < j => Wraps(trace[j].f, trace[i].f)
            /\ \A b \in bodies :
                  /\ \A i \in entries : i < b
                  /\ \A i \in exits : b < i
            /\ \A j \in entries, f \in layers :
                  (funcs[f].kind \in EntryKinds /\ Wraps(f, trace[j].f)) =>
                      \E i \in entries : i < j /\ trace[i].f = f
            /\ \A i \in exits, g \in layers :
                  (funcs[g].kind \in ExitKinds /\ Wraps(trace[i].f, g)) =>
                      \E j \in exits : j < i /\ trace[j].f = g

C18_Witness ==
    /\ Done
    /\ Len(funcs) = 3
    /\ funcs[2].kind = "postcondition"
    /\ funcs[3].kind = "postcondition"
    /\ funcs[2].cond # funcs[3].cond
    /\ \E i, j \in DOMAIN trace :
          /\ i < j
          /\ EvalAt(i, 2, "exit") /\ trace[i].val = "true"
          /\ EvalAt(j, 3, "exit") /\ trace[j].val = "false"
    /\ flight = Raised("PostconditionViolation", "Postcondition violated")

(***************************************************************************)
(* C19: once a callable of the stack has raised (the body, or a wrapper    *)
(* raising a violation), every later step of the call leaves the exception *)
(* as it is, class and message, until the caller has it: no layer around   *)
(* replaces it, returns instead, or evaluates anything.                    *)
(***************************************************************************)
C19_RaisedPropagatesUnchanged ==
    [][flight.tag = "raise" =>
          \/ /\ flight' = flight
             /\ trace' = trace
             /\ Len(stack') < Len(stack)
          \/ /\ Done
             /\ flight' = NoFlight
          \/ UNCHANGED <<heapVars, callVars>>]_vars

C19_Witness ==
    /\ Done
    /\ Len(funcs) = 3
    /\ funcs[2].kind = "precondition"
    /\ funcs[3].kind = "invariant"
    /\ \E i \in DOMAIN trace : EvalAt(i, 3, "entry") /\ trace[i].val = "true"
    /\ EvalAt(Len(trace), 2, "entry")
    /\ trace[Len(trace)].val = "false"
    /\ EvalCond(funcs[3].cond, 0, argst) = "true"
    /\ flight = Raised("PreconditionViolation", "Precondition violated")

\* how many times wrapper f evaluated its predicate in the call
Evaluations(f) ==
    Cardinality({i \in DOMAIN trace : trace[i].ev = "eval" /\ trace[i].f = f})

\* some entry-side check of the call raised
EntryCheckRaised ==
    \E i \in DOMAIN trace :
        trace[i].ev = "eval" /\ trace[i].at = "entry" /\ trace[i].val # "true"

(***************************************************************************)
(* C20: in one call the body runs at most once; when the call has ended,   *)
(* the body ran exactly once if no entry-side check raised, and not at all *)
(* if one did; a wrapper that evaluates its predicate a second time is an  *)
(* invariant wrapper, the first time on its entry side and the second on   *)
(* its exit side: so a precondition or postcondition predicate is          *)
(* evaluated at most once, an invariant predicate at most twice.           *)
(***************************************************************************)
C20_NoRetry ==
    /\ BodyRuns <= 1
    /\ Done => (BodyRuns = IF EntryCheckRaised THEN 0 ELSE 1)
    /\ LET evals == {i \in DOMAIN trace : trace[i].ev = "eval"}
       IN  \A i, j \in evals :
               (i < j /\ trace[i].f = trace[j].f) =>
                   /\ funcs[trace[i].f].kind = "invariant"
                   /\ trace[i].at = "entry"
                   /\ trace[j].at = "exit"

C20_Witness ==
    /\ Done
    /\ Len(funcs) = 3
    /\ funcs[2].kind = "precondition"
    /\ funcs[3].kind = "invariant"
    /\ Evaluations(3) = 2
    /\ Evaluations(2) = 1
    /\ BodyRuns = 1
    /\ flight.tag = "return"

(***************************************************************************)
(* Calls whose log also keeps the flag as it is at the moment the caller   *)
(* calls the callable, before any wrapper has read it.                     *)
(***************************************************************************)
Began(f) == [Called(f) EXCEPT !.val = Bool(_CONTRACT_CHECKING_ENABLED)]

\* the caller calls callable f with arguments a
CallBegins(f, a) ==
    /\ Idle
    /\ stack' = <<Frame(f)>>
    /\ argst' = a
    /\ trace' = <<Began(f)>>
    /\ UNCHANGED <<_CONTRACT_CHECKING_ENABLED, heapVars, flight>>

CallFBegins ==
    \E a \in ArgStates : funcs[Outermost].name = "f" /\ CallBegins(Outermost, a)

NextToggled ==
    \/ enable_contracts
    \/ disable_contracts
    \/ precondition
    \/ postcondition
    \/ invariant
    \/ CallFBegins
    \/ PreEnter
    \/ PreReturn
    \/ PostEnter
    \/ PostAfter
    \/ InvEnter
    \/ InvAfter
    \/ BodyF
    \/ Receive

SpecToggled == Init /\ [][NextToggled]_vars

\* the flag as it was when the call began
BeganEnabled == trace[1].val = "true"

(***************************************************************************)
(* C21: a call decides once, when it begins, whether it is checked.  A     *)
(* call that begins while the flag is clear has no check that raises; in a *)
(* call that begins while the flag is set every wrapper that reaches a     *)
(* check point evaluates its predicate there; and an invariant wrapper     *)
(* that evaluates its predicate on its exit side has evaluated it on its   *)
(* entry side, whatever enable_contracts() and disable_contracts() do      *)
(* while the call is in flight.                                            *)
(***************************************************************************)
C21_CallDecidesAtomically ==
    trace # <<>> =>
        /\ ~BeganEnabled =>
               \A i \in DOMAIN trace : trace[i].ev = "eval" => trace[i].val = "true"
        /\ BeganEnabled =>
               \A i \in DOMAIN trace : trace[i].ev = "poll" => Checked(i)
        /\ \A f \in Layers("invariant") :
               (\E j \in DOMAIN trace : EvalAt(j, f, "exit")) =>
                   \E i \in DOMAIN trace : EvalAt(i, f, "entry")

(***************************************************************************)
(* Decorators applied by hand, g = precondition(c)(f), to any callable at  *)
(* hand: the original function and every wrapper stay callable, and one    *)
(* callable may be decorated more than once, each time giving a new        *)
(* wrapper.                                                                *)
(***************************************************************************)
Callables == 1..Len(funcs)

precondition_of_any == Decorate("precondition", Callables)
postcondition_of_any == Decorate("postcondition", Callables)
invariant_of_any == Decorate("invariant", Callables)

\* the caller calls any of the callables of the generic function f
CallAny == \E f \in Callables, a \in ArgStates : funcs[f].name = "f" /\ Call(f, a)

NextBranching ==
    \/ enable_contracts
    \/ disable_contracts
    \/ precondition_of_any
    \/ postcondition_of_any
    \/ invariant_of_any
    \/ CallAny
    \/ PreEnter
    \/ PreReturn
    \/ PostEnter
    \/ PostAfter
    \/ InvEnter
    \/ InvAfter
    \/ BodyF
    \/ Receive

SpecBranching == Init /\ [][NextBranching]_vars

\* the call has ended by returning, every wrapper it ran having read the
\* flag set and evaluated its predicate at each of its check points
FullyCheckedCall ==
    /\ Done
    /\ flight.tag = "return"
    /\ \A i \in DOMAIN trace :
           trace[i].ev = "poll" => (trace[i].val = "true" /\ Checked(i))

\* the predicates of one kind that the call evaluated
CheckedPredicates(kind) ==
    {funcs[trace[i].f].cond :
        i \in {j \in DOMAIN trace : trace[j].ev = "eval" /\ funcs[trace[j].f].kind = kind}}

\* the predicates of one kind listed in the dict seen through callable f
ListedPredicates(f, kind) ==
    {CarrierList(f, ListKey(kind))[k] : k \in DOMAIN CarrierList(f, ListKey(kind))}

(***************************************************************************)
(* C22: for every wrapped callable, however the decorators were applied,   *)
(* the preconditions, postconditions and invariants lists of its           *)
(* _contract_metadata hold exactly the predicates that a call of it        *)
(* evaluates while checking is enabled: after a call of a wrapper that     *)
(* returned with every check made, the predicates listed through the       *)
(* called wrapper are, kind by kind, the predicates the call evaluated.    *)
(***************************************************************************)
C22_IntrospectionIsFaithful ==
    (FullyCheckedCall /\ funcs[Root].kind # "body") =>
        \A kind \in {"precondition", "postcondition", "invariant"} :
            ListedPredicates(Root, kind) = CheckedPredicates(kind)

====
